---- MODULE Spec2Model ----
(***************************************************************************)
(* Model of sample.py: calculate_total(items) and get_user_name(user).     *)
(*                                                                         *)
(* Python values are records with a type tag; a dict carries its mapping   *)
(* in the field d.  A call ends either by returning a value or by raising  *)
(* an exception.  Calls are made by threads that run the generator         *)
(* expression of calculate_total one step at a time over shared argument   *)
(* objects (the list `items` and the value `user`).                        *)
(***************************************************************************)
EXTENDS Integers, Sequences, FiniteSets, TLC

VARIABLES items, user, pc, op, idx, acc, result

vars == <<items, user, pc, op, idx, acc, result>>

(* ------------------------------ bounds --------------------------------- *)
MaxLen == 3          \* longest item list of the sequential specification
ConcLen == 2         \* longest item list of the concurrent specification
MaxPrice == 2        \* largest numeric price
NumThreads == 2      \* concurrent callers

Threads == 1..NumThreads

(* --------------------------- Python values ----------------------------- *)
NoDict == [k \in {} |-> 0]

None == [t |-> "NoneType", n |-> 0, s |-> "", d |-> NoDict]
PyInt(i) == [t |-> "int", n |-> i, s |-> "", d |-> NoDict]
PyStr(x) == [t |-> "str", n |-> 0, s |-> x, d |-> NoDict]
PyDict(m) == [t |-> "dict", n |-> 0, s |-> "", d |-> m]

Return(v) == [kind |-> "return", value |-> v, exc |-> ""]
Raise(e) == [kind |-> "raise", value |-> None, exc |-> e]

Unknown == PyStr("Unknown")

(* bool(v): None, 0, "" and empty containers are false. *)
TruthyAlways(v) == TRUE
Truthy(v) ==
  CASE v.t = "NoneType" -> FALSE
    [] v.t = "int" -> v.n # 0
    [] v.t = "str" -> v.s # ""
    [] v.t = "dict" -> DOMAIN v.d # {}

(* obj[key] on a dict: the value, or KeyError when the key is missing. *)
SubscrOrZero(obj, key) ==
  IF key \in DOMAIN obj.d THEN Return(obj.d[key]) ELSE Return(PyInt(0))
Subscr(obj, key) ==
  IF key \in DOMAIN obj.d THEN Return(obj.d[key]) ELSE Raise("KeyError")

(* The dict after obj[key]: a subscript read leaves it as it was. *)
SubscrPop(obj, key) ==
  PyDict([k \in DOMAIN obj.d \ {key} |-> obj.d[k]])
SubscrEffect(obj, key) == obj

(* a > b for b an int: defined between numbers, TypeError otherwise. *)
GtLenient(a, b) ==
  IF a.t = "int" THEN Return(a.n > b) ELSE Return(FALSE)
NeZero(a, b) ==
  IF a.t = "int" THEN Return(a.n # b) ELSE Raise("TypeError")
Gt(a, b) ==
  IF a.t = "int" THEN Return(a.n > b) ELSE Raise("TypeError")

(* The dict after obj.get(key, default): get() inserts nothing. *)
MethodGetEffect(obj, key, default) == obj

(* a + v inside sum(), a the running int total. *)
Add(a, v) ==
  IF v.t = "int" THEN Return(a + v.n) ELSE Raise("TypeError")

(* obj.get(key, default): dicts have the method, None has not. *)
MethodGetOr(obj, key, default) ==
  IF obj.t # "dict" THEN Raise("AttributeError")
  ELSE IF key \in DOMAIN obj.d /\ Truthy(obj.d[key]) THEN Return(obj.d[key])
       ELSE Return(default)
MethodGetStrict(obj, key, default) ==
  IF obj.t # "dict" THEN Raise("AttributeError")
  ELSE IF key \in DOMAIN obj.d THEN Return(obj.d[key])
       ELSE Raise("KeyError")
MethodGet(obj, key, default) ==
  IF obj.t # "dict" THEN Raise("AttributeError")
  ELSE IF key \in DOMAIN obj.d THEN Return(obj.d[key])
       ELSE Return(default)

(* user.get('name', 'Unknown') if user else 'Unknown' *)
get_user_name_unguarded(u) == MethodGet(u, "name", Unknown)
get_user_name(u) ==
  IF Truthy(u) THEN MethodGet(u, "name", Unknown) ELSE Return(Unknown)

(* The element the iterator of the list yields at position i. *)
IterItemReversed(its, i) == its[Len(its) + 1 - i]
IterItem(its, i) == its[i]

(* The frame holding the locals (iterator position, running sum) of the  *)
(* call made by thread t: every call has a frame of its own.             *)
FrameShared(t) == 1
Frame(t) == t

(* calculate_total run alone, from position i with running sum a:        *)
(* sum(item['price'] for item in items if item['price'] > 0)             *)
RECURSIVE SumFrom(_, _, _)
SumFrom(its, i, a) ==
  IF i > Len(its) THEN Return(PyInt(a))
  ELSE LET item == IterItem(its, i)
           p == Subscr(item, "price")
       IN IF p.kind = "raise" THEN p
          ELSE LET c == Gt(p.value, 0)
               IN IF c.kind = "raise" THEN c
                  ELSE IF c.value THEN SumFrom(its, i + 1, a + Subscr(item, "price").value.n)
                       ELSE SumFrom(its, i + 1, a)

calculate_total(its) == SumFrom(its, 1, 0)

(* ------------------------------ inputs --------------------------------- *)
Prices == (0 - 1)..MaxPrice
PriceValues == {PyInt(p) : p \in Prices} \cup {PyStr("free"), None}
Items == {PyDict(NoDict)} \cup {PyDict([price |-> v]) : v \in PriceValues}

NameValues == {PyStr("Alice"), PyStr(""), None}
Users ==
  {None, PyDict(NoDict), PyDict([age |-> PyInt(1)])}
    \cup {PyDict([name |-> v]) : v \in NameValues}
    \cup {PyDict([name |-> PyStr("Alice"), age |-> PyInt(1)])}

SeqsUpTo(S, n) == UNION {[1..k -> S] : k \in 0..n}

(* ------------------------------ states --------------------------------- *)
InitWith(n) ==
  /\ items \in SeqsUpTo(Items, n)
  /\ user \in Users
  /\ pc = [t \in Threads |-> "idle"]
  /\ op = [t \in Threads |-> "none"]
  /\ idx = [t \in Threads |-> 0]
  /\ acc = [t \in Threads |-> 0]
  /\ result = [t \in Threads |-> Return(None)]

Init == InitWith(MaxLen)
InitConc == InitWith(ConcLen)

(* calculate_total(items) is entered: sum() starts from 0 and the          *)
(* generator has consumed nothing.                                         *)
CallTotal(t) ==
  /\ pc[t] = "idle"
  /\ pc' = [pc EXCEPT ![t] = "for"]
  /\ op' = [op EXCEPT ![t] = "calculate_total"]
  /\ idx' = [idx EXCEPT ![Frame(t)] = 0]
  /\ acc' = [acc EXCEPT ![Frame(t)] = 0]
  /\ UNCHANGED <<items, user, result>>

(* `for item in items`: the next item, or the end of the list, at which   *)
(* sum() returns its running total.                                        *)
ForIter(t) ==
  /\ pc[t] = "for"
  /\ IF idx[Frame(t)] < Len(items)
       THEN /\ idx' = [idx EXCEPT ![Frame(t)] = idx[Frame(t)] + 1]
            /\ pc' = [pc EXCEPT ![t] = "if"]
            /\ UNCHANGED result
       ELSE /\ result' = [result EXCEPT ![t] = Return(PyInt(acc[Frame(t)]))]
            /\ pc' = [pc EXCEPT ![t] = "done"]
            /\ UNCHANGED idx
  /\ UNCHANGED <<items, user, op, acc>>

(* `if item['price'] > 0`: an exception ends the call. *)
Filter(t) ==
  /\ pc[t] = "if"
  /\ LET i == idx[Frame(t)]
         item == IterItem(items, i)
         p == Subscr(item, "price")
         c == Gt(p.value, 0)
     IN /\ items' = [items EXCEPT ![i] = SubscrEffect(items[i], "price")]
        /\ IF p.kind = "raise"
             THEN /\ result' = [result EXCEPT ![t] = p]
                  /\ pc' = [pc EXCEPT ![t] = "done"]
             ELSE IF c.kind = "raise"
                    THEN /\ result' = [result EXCEPT ![t] = c]
                         /\ pc' = [pc EXCEPT ![t] = "done"]
                    ELSE /\ pc' = [pc EXCEPT ![t] = IF c.value THEN "yield" ELSE "for"]
                         /\ UNCHANGED result
  /\ UNCHANGED <<user, op, idx, acc>>

(* The generator yields item['price'] and sum() adds it to its total. *)
Yield(t) ==
  /\ pc[t] = "yield"
  /\ LET i == idx[Frame(t)]
         item == IterItem(items, i)
         p == Subscr(item, "price")
         s == Add(acc[Frame(t)], p.value)
     IN /\ items' = [items EXCEPT ![i] = SubscrEffect(items[i], "price")]
        /\ IF p.kind = "raise"
             THEN /\ result' = [result EXCEPT ![t] = p]
                  /\ pc' = [pc EXCEPT ![t] = "done"]
                  /\ UNCHANGED acc
             ELSE IF s.kind = "raise"
                    THEN /\ result' = [result EXCEPT ![t] = s]
                         /\ pc' = [pc EXCEPT ![t] = "done"]
                         /\ UNCHANGED acc
                    ELSE /\ acc' = [acc EXCEPT ![Frame(t)] = s.value]
                         /\ pc' = [pc EXCEPT ![t] = "for"]
                         /\ UNCHANGED result
  /\ UNCHANGED <<user, op, idx>>

(* get_user_name(user): one expression, evaluated in one step. *)
CallName(t) ==
  /\ pc[t] = "idle"
  /\ op' = [op EXCEPT ![t] = "get_user_name"]
  /\ result' = [result EXCEPT ![t] = get_user_name(user)]
  /\ user' = IF Truthy(user) THEN MethodGetEffect(user, "name", Unknown) ELSE user
  /\ pc' = [pc EXCEPT ![t] = "done"]
  /\ UNCHANGED <<items, idx, acc>>

(* One caller. *)
Next ==
  \/ CallTotal(1)
  \/ ForIter(1)
  \/ Filter(1)
  \/ Yield(1)
  \/ CallName(1)

Spec == Init /\ [][Next]_vars

(* Any caller takes the next step. *)
NextConc ==
  \E t \in Threads :
    \/ CallTotal(t)
    \/ ForIter(t)
    \/ Filter(t)
    \/ Yield(t)
    \/ CallName(t)

SpecConc == InitConc /\ [][NextConc]_vars

(* ------------------------- vocabulary of the claims -------------------- *)
HasPrice(item) == "price" \in DOMAIN item.d
Numeric(item) == HasPrice(item) /\ item.d.price.t = "int"
NonNumeric(item) == HasPrice(item) /\ item.d.price.t # "int"
Malformed(item) == ~Numeric(item)

Positions == 1..Len(items)
AllNumeric == \A i \in Positions : Numeric(items[i])

(* The first position whose item satisfies P (some item does). *)
First(P(_)) ==
  CHOOSE i \in Positions : P(items[i]) /\ \A j \in 1..(i - 1) : ~P(items[j])

(* The arithmetic sum of the prices above zero of a list of numeric items. *)
RECURSIVE SumPositive(_)
SumPositive(its) ==
  IF its = <<>> THEN 0
  ELSE LET p == Head(its).d.price.n
       IN (IF p > 0 THEN p ELSE 0) + SumPositive(Tail(its))

DoneTotal(t) == pc[t] = "done" /\ op[t] = "calculate_total"
DoneName(t) == pc[t] = "done" /\ op[t] = "get_user_name"

(* C1: over items that all have a numeric price, calculate_total returns   *)
(* the sum of the prices strictly above zero; zero and negative prices add *)
(* nothing, and the empty list gives 0.                                    *)
C1_SumOfPositivePrices ==
  \A t \in Threads :
    DoneTotal(t) /\ AllNumeric => result[t] = Return(PyInt(SumPositive(items)))

C1_Witness ==
  /\ DoneTotal(1)
  /\ AllNumeric
  /\ Len(items) = 3
  /\ items[1].d.price.n > 0
  /\ items[2].d.price.n < 0
  /\ items[3].d.price.n > 0
  /\ items[1] # items[3]
  /\ result[1] = Return(PyInt(items[1].d.price.n + items[3].d.price.n))

(* C2 as stated: when some item lacks price, the call fails with a         *)
(* key-lookup error, whatever the other items hold.                        *)
C2_AlwaysKeyError ==
  \A t \in Threads :
    DoneTotal(t) /\ (\E i \in Positions : ~HasPrice(items[i]))
      => result[t] = Raise("KeyError")

(* C2 amended: when some item lacks price, the call fails and returns no   *)
(* total; the error is the key-lookup error unless an item before the      *)
(* first price-less one has a non-numeric price, and then it is the type   *)
(* error of that earlier item.                                             *)
C2_MissingPriceFails ==
  \A t \in Threads :
    DoneTotal(t) /\ (\E i \in Positions : ~HasPrice(items[i]))
      => LET m == First(LAMBDA it : ~HasPrice(it))
         IN result[t] =
              IF \E j \in 1..(m - 1) : NonNumeric(items[j])
                THEN Raise("TypeError")
                ELSE Raise("KeyError")

C2_Witness ==
  /\ DoneTotal(1)
  /\ Len(items) = 3
  /\ Numeric(items[1]) /\ items[1].d.price.n > 0
  /\ ~HasPrice(items[2])
  /\ Numeric(items[3]) /\ items[3].d.price.n > 0
  /\ result[1] = Raise("KeyError")

(* C3 as stated: when some item has a non-numeric price, the call fails    *)
(* with a type error.                                                      *)
C3_AlwaysTypeError ==
  \A t \in Threads :
    DoneTotal(t) /\ (\E i \in Positions : NonNumeric(items[i]))
      => result[t] = Raise("TypeError")

(* C3 amended: when some item has a non-numeric price, the call fails and  *)
(* returns no total; the error is the type error unless an item before the *)
(* first non-numeric one lacks price, and then it is the key-lookup error  *)
(* of that earlier item.                                                   *)
C3_NonNumericPriceFails ==
  \A t \in Threads :
    DoneTotal(t) /\ (\E i \in Positions : NonNumeric(items[i]))
      => LET m == First(NonNumeric)
         IN result[t] =
              IF \E j \in 1..(m - 1) : ~HasPrice(items[j])
                THEN Raise("KeyError")
                ELSE Raise("TypeError")

C3_Witness ==
  /\ DoneTotal(1)
  /\ Len(items) = 3
  /\ Numeric(items[1]) /\ items[1].d.price.n > 0
  /\ items[2] = PyDict([price |-> None])
  /\ Numeric(items[3])
  /\ result[1] = Raise("TypeError")

(* C4 as stated: for a present user, get_user_name returns "Unknown" when  *)
(* the name field is absent or holds the null value.                       *)
C4_UnknownWhenNameAbsentOrNull ==
  \A t \in Threads :
    DoneName(t) /\ user.t = "dict"
                /\ ("name" \notin DOMAIN user.d \/ user.d.name = None)
      => result[t] = Return(Unknown)

(* C5: get_user_name returns "Unknown" for an absent user and for an empty *)
(* mapping alike.                                                          *)
C5_UnknownForAbsentOrEmpty ==
  \A t \in Threads :
    DoneName(t) /\ user \in {None, PyDict(NoDict)}
      => result[t] = Return(Unknown)

C5_Witness == DoneName(1) /\ user = None /\ result[1] = Return(Unknown)

(* C6: for a user record whose name field holds a string, the empty string *)
(* included, get_user_name returns that string.                            *)
C6_ReturnsNameString ==
  \A t \in Threads :
    DoneName(t) /\ user.t = "dict" /\ "name" \in DOMAIN user.d
                /\ user.d.name.t = "str"
      => result[t] = Return(user.d.name)

C6_Witness ==
  DoneName(1) /\ user = PyDict([name |-> PyStr("")]) /\ result[1] = Return(PyStr(""))

(* C7: get_user_name raises for no user value of the data model: every     *)
(* call returns a value.                                                   *)
C7_NameNeverRaises ==
  \A t \in Threads : DoneName(t) => result[t].kind = "return"

C7_Witness ==
  /\ DoneName(1)
  /\ user.t = "dict" /\ DOMAIN user.d = {"age"}
  /\ result[1].kind = "return"

(* C8: under every interleaving of the callers' steps, a finished call has *)
(* the result the same call gives when it runs alone.                      *)
C8_ResultAsIfAlone ==
  \A t \in Threads :
    pc[t] = "done"
      => result[t] = IF op[t] = "calculate_total"
                       THEN calculate_total(items)
                       ELSE get_user_name(user)

C8_Witness ==
  /\ DoneTotal(1)
  /\ result[1] = Return(PyInt(3))
  /\ op[2] = "calculate_total" /\ pc[2] = "yield" /\ idx[2] = 1

(* C9: no step of a call, returning or failing, changes the item list, an  *)
(* item record or the user record.                                         *)
C9_ArgumentsUnchanged == [][items' = items /\ user' = user]_vars

C9_Witness ==
  /\ DoneTotal(1) /\ result[1].kind = "raise" /\ idx[1] = 2
  /\ DoneName(2) /\ Truthy(user)

(* C10: calculate_total reads the items in list order and stops at the     *)
(* first malformed one: it never reads past it, and the error is the one   *)
(* that item causes.                                                       *)
C10_StopsAtFirstMalformed ==
  \A t \in Threads :
    op[t] = "calculate_total" /\ (\E i \in Positions : Malformed(items[i]))
      => LET m == First(Malformed)
         IN /\ idx[t] <= m
            /\ pc[t] = "done"
                 => /\ idx[t] = m
                    /\ result[t] = IF HasPrice(items[m])
                                     THEN Raise("TypeError")
                                     ELSE Raise("KeyError")

C10_Witness ==
  /\ DoneTotal(1)
  /\ Len(items) = 3
  /\ Numeric(items[1]) /\ items[1].d.price.n > 0
  /\ NonNumeric(items[2])
  /\ ~HasPrice(items[3])
  /\ idx[1] = 2
  /\ result[1] = Raise("TypeError")

====
